---- MODULE Spec2Model ----
(***************************************************************************)
(* The change-detection and delivery pipeline of the concierge scraper     *)
(* (src/unnamed/part_000): state file, pruning, multi-generation hashing,  *)
(* seeding decision, migration, classification, Discord delivery.          *)
(*                                                                         *)
(* Strings are sequences of one-character strings.  Non-ASCII characters   *)
(* of the source's literals are written with an ASCII stand-in of the same *)
(* UTF-16 length.  Time is counted in whole days (Date.now() / 86400000).  *)
(***************************************************************************)
EXTENDS Integers, Sequences, FiniteSets, TLC

\* ---------------------------------------------------------------- bounds
\* longest record sequence a scrape returns
MaxItems == 2
\* number of runs of the script on one state file
MaxRuns == 2
\* how often the clock may advance between two reads inside one run
MaxTicks == 1
\* length of the long link of the catalogue's long record
LongLen == 950

\* ------------------------------------------------------ program constants
STATE_TTL_DAYS == 14
DescHashCap == 200
SnippetCap == 140
ChunkBudget == 1900

STATE_VERSION == "v1"

PAGE_URL == <<"h", "t", "t", "p", "s", ":", "/", "/", "a", "p", "p", "o", "i", "n", "t", "m", "e", "n", "t", "t", "r", "a", "d", "e", "r", ".", "c", "o", "m", "/", "c", "o", "n", "c", "i", "e", "r", "g", "e">>

\* ---------------------------------------------------------------- strings
Whitespace == {" ", "\n", "\t"}

Min2(a, b) == IF a < b THEN a ELSE b

\* s.replace(/\s+/g, " ") on s[lo..hi]: every maximal run of whitespace
\* becomes one space (the first character of a run is kept as a space, the
\* others are dropped); the range is halved to keep the evaluation shallow
RECURSIVE replaceWs(_, _, _)
replaceWs(s, lo, hi) ==
  IF lo > hi THEN <<>>
  ELSE IF lo = hi
       THEN IF s[lo] \in Whitespace
            THEN IF lo > 1 /\ s[lo - 1] \in Whitespace THEN <<>> ELSE <<" ">>
            ELSE <<s[lo]>>
       ELSE LET mid == (lo + hi) \div 2
            IN  replaceWs(s, lo, mid) \o replaceWs(s, mid + 1, hi)

\* index of the first character of s at or after i that is no whitespace
RECURSIVE firstInk(_, _)
firstInk(s, i) ==
  IF i > Len(s) \/ s[i] \notin Whitespace THEN i ELSE firstInk(s, i + 1)

\* index of the last character of s at or before i that is no whitespace
RECURSIVE lastInk(_, _)
lastInk(s, i) ==
  IF i < 1 \/ s[i] \notin Whitespace THEN i ELSE lastInk(s, i - 1)

\* s.trim()
trim(s) == SubSeq(s, firstInk(s, 1), lastInk(s, Len(s)))

\* s.trimEnd()
trimEnd(s) == SubSeq(s, 1, lastInk(s, Len(s)))

\* s.slice(0, n)
slice0(s, n) == SubSeq(s, 1, Min2(n, Len(s)))

\* norm without its trim()
norm_noTrim(s) == replaceWs(s, 1, Len(s))

\* norm = s => (s || "").replace(/\s+/g, " ").trim(); an absent field is <<>>
norm(s) == trim(replaceWs(s, 1, Len(s)))

\* Array.prototype.join over the entries that survive filter(Boolean)
RECURSIVE join(_, _)
join(parts, sep) ==
  IF parts = <<>> THEN <<>>
  ELSE IF Len(parts) = 1 THEN parts[1]
  ELSE parts[1] \o sep \o join(Tail(parts), sep)

filterBoolean(parts) == SelectSeq(parts, LAMBDA p : p # <<>>)

\* decimal digits of a small natural number (template literal ${items.length})
RECURSIVE digits(_)
digits(n) ==
  LET d == <<"0", "1", "2", "3", "4", "5", "6", "7", "8", "9">>
  IN  IF n < 10 THEN <<d[n + 1]>> ELSE digits(n \div 10) \o <<d[(n % 10) + 1]>>

\* ---------------------------------------------------------------- records
\* the record scrapeFromTrending pushes for one row
Row(price, user, desc, when, link) ==
  [ title |-> (IF price # <<>> THEN price ELSE <<"R", "e", "q", "u", "e", "s", "t">>)
              \o <<" ", "-", " ">>
              \o (IF user # <<>> THEN user ELSE <<"u", "s", "e", "r">>),
    meta  |-> <<>>,
    user  |-> user,
    price |-> price,
    desc  |-> desc,
    when  |-> when,
    link  |-> IF link # <<>> THEN link ELSE PAGE_URL ]

LongLink == <<"h", "t", "t", "p", ":", "/", "/">> \o [i \in 1..LongLen |-> "x"]

\* the rows a scrape can return: two rows of one poster that differ only in
\* the description, and a row with nothing but a weekday and a long link
Catalogue ==
  << Row(<<"$", "5">>, <<"a", "l">>, <<"x", " ", "y">>, <<>>, <<>>),
     Row(<<"$", "5">>, <<"a", "l">>, <<"z">>, <<>>, <<>>),
     Row(<<>>, <<>>, <<>>, <<"F", "r", "i">>, LongLink) >>

RecIds == 1..Len(Catalogue)

\* ---------------------------------------------------------------- hashing
\* JSON.stringify(canon): the key order of the literal, then the values
jsonV3(it) ==
  << <<"p", "u", "d", "w", "l">>,
     norm(it.price), norm(it.user), slice0(norm(it.desc), DescHashCap),
     norm(it.when), norm(it.link) >>

jsonV2(it) ==
  << <<"t", "d", "w", "p", "l">>,
     norm(it.title), slice0(norm(it.desc), DescHashCap), norm(it.when),
     norm(it.price), norm(it.link) >>

jsonV1(it) ==
  << <<"t", "m", "w", "p", "l">>,
     norm(it.title), norm(it.meta), norm(it.when), norm(it.price),
     norm(it.link) >>

\* every string the run hashes, in a fixed order
HashedStrings ==
  [j \in 1..(3 * Len(Catalogue)) |->
     LET it == Catalogue[((j - 1) \div 3) + 1]
         g  == (j - 1) % 3
     IN  IF g = 0 THEN jsonV3(it) ELSE IF g = 1 THEN jsonV2(it) ELSE jsonV1(it)]

\* sha256(s).hex.slice(0, 16), taken to be collision free: the digest of a
\* string is the first position at which the string occurs in HashedStrings
sha(s) ==
  CHOOSE j \in DOMAIN HashedStrings :
    HashedStrings[j] = s /\ \A k \in 1..(j - 1) : HashedStrings[k] # s

hashV3(it) == sha(jsonV3(it))
hashV2(it) == sha(jsonV2(it))
hashV1(it) == sha(jsonV1(it))

\* Primary id first; legacy ids after
candidateIds(it) == <<hashV3(it), hashV2(it), hashV1(it)>>

\* candidateIds of the catalogue's records, computed once
IdTable == [r \in RecIds |-> candidateIds(Catalogue[r])]
Ids(r) == IdTable[r]
IdSet(r) == {Ids(r)[g] : g \in 1..3}

\* ------------------------------------------------------------- state file
\* a JSON value of the sent map: a number, or anything else
Num(t) == [num |-> TRUE, v |-> t]
NotNum == [num |-> FALSE, v |-> 0]

\* JavaScript truthiness of a sent value (a number is truthy unless 0)
Truthy(val) == IF val.num THEN val.v # 0 ELSE TRUE

EmptyMap == [k \in {} |-> Num(0)]

\* isArray: the state object is a JavaScript array (typeof "object" too)
DefaultState ==
  [version |-> STATE_VERSION, initialized |-> FALSE, sent |-> EmptyMap,
   initialized_at |-> <<>>, isArray |-> FALSE]

\* what the state file holds: nothing, text that does not parse, a JSON
\* scalar (null included), a JSON array, or a JSON object with or without
\* its sent / initialized / version
NoFile ==
  [kind |-> "missing", hasSent |-> FALSE, sent |-> EmptyMap, hasInit |-> FALSE,
   initialized |-> FALSE, hasVersion |-> FALSE, version |-> STATE_VERSION,
   initialized_at |-> <<>>]

loadState(f) ==
  IF f.kind \in {"missing", "corrupt"} THEN DefaultState
  ELSE IF f.kind = "scalar" THEN DefaultState
  ELSE IF f.kind = "array" THEN [DefaultState EXCEPT !.isArray = TRUE]
  ELSE [version |-> IF f.hasVersion THEN f.version ELSE STATE_VERSION,
        initialized |-> IF f.hasInit THEN f.initialized ELSE FALSE,
        sent |-> IF f.hasSent THEN f.sent ELSE EmptyMap,
        initialized_at |-> f.initialized_at, isArray |-> FALSE]

\* fs.writeFileSync(STATE_FILE, JSON.stringify(state, null, 2)); of an array
\* JSON.stringify writes the elements only, none of its named properties
saveState(st) ==
  IF st.isArray THEN [NoFile EXCEPT !.kind = "array"]
  ELSE [kind |-> "object", hasSent |-> TRUE, sent |-> st.sent, hasInit |-> TRUE,
        initialized |-> st.initialized, hasVersion |-> TRUE, version |-> st.version,
        initialized_at |-> st.initialized_at]

\* delete state.sent[k]
Delete(sent, k) == [j \in DOMAIN sent \ {k} |-> sent[j]]

\* the loop of pruneOld over Object.entries(state.sent)
RECURSIVE pruneEntries(_, _, _)
pruneEntries(sent, keys, cutoff) ==
  IF keys = {} THEN sent
  ELSE LET k == CHOOSE j \in keys : TRUE
           ts == sent[k]
       IN  pruneEntries(IF ~ts.num \/ ts.v < cutoff THEN Delete(sent, k) ELSE sent,
                        keys \ {k}, cutoff)

\* pruneOld with the comparison ts <= cutoff
pruneOld_inclusive(st, clock) ==
  [st EXCEPT !.sent = pruneEntries(st.sent, DOMAIN st.sent,
                                   clock - STATE_TTL_DAYS + 1)]

pruneOld(st, clock) ==
  LET cutoff == clock - STATE_TTL_DAYS
  IN  [st EXCEPT !.sent = pruneEntries(st.sent, DOMAIN st.sent, cutoff)]

\* ----------------------------------------------------------------- ledger
markAllHashes(sent, r, ts) ==
  [k \in DOMAIN sent \cup IdSet(r) |-> IF k \in IdSet(r) THEN Num(ts) ELSE sent[k]]

\* state.sent[id] as a condition
Has(sent, id) == id \in DOMAIN sent /\ Truthy(sent[id])

\* isAlreadySeen that finds nothing in the ledger
isAlreadySeen_never(sent, r) ==
  [seen |-> FALSE, existingId |-> 0, primary |-> Ids(r)[1]]

\* isAlreadySeen reporting the last matching id instead of the first
isAlreadySeen_lastMatch(sent, r) ==
  LET ids == Ids(r)
      hit == {g \in 1..3 : ids[g] \in DOMAIN sent /\ Truthy(sent[ids[g]])}
  IN  IF hit # {}
      THEN [seen |-> TRUE,
            existingId |-> ids[CHOOSE g \in hit : \A h \in hit : h <= g],
            primary |-> ids[1]]
      ELSE [seen |-> FALSE, existingId |-> 0, primary |-> ids[1]]

isAlreadySeen(sent, r) ==
  LET ids == Ids(r)
      hit == {g \in 1..3 : Has(sent, ids[g])}
  IN  IF hit # {}
      THEN [seen |-> TRUE,
            existingId |-> ids[CHOOSE g \in hit : \A h \in hit : g <= h],
            primary |-> ids[1]]
      ELSE [seen |-> FALSE, existingId |-> 0, primary |-> ids[1]]

migrateToPrimaryIfNeeded(sent, seenInfo) ==
  IF seenInfo.seen /\ ~Has(sent, seenInfo.primary)
  THEN [k \in DOMAIN sent \cup {seenInfo.primary} |->
          IF k = seenInfo.primary THEN sent[seenInfo.existingId] ELSE sent[k]]
  ELSE sent

\* --------------------------------------------------------------- messages
\* the title of a record in a message: price and "by user", joined
titleBits(it) ==
  filterBoolean(<< it.price,
                   IF it.user # <<>> THEN <<"b", "y", " ">> \o it.user ELSE <<>> >>)

\* the text postToDiscord sends for one record
itemContent(it) ==
  LET title == IF titleBits(it) # <<>> THEN join(titleBits(it), <<" ", "-", " ">>)
               ELSE IF it.title # <<>> THEN it.title
               ELSE <<"N", "e", "w", " ", "R", "e", "q", "u", "e", "s", "t">>
  IN  join(filterBoolean(<<
          <<"*", "*">> \o title \o <<"*", "*">>,
          IF it.desc # <<>> THEN <<">", " ">> \o it.desc ELSE <<>>,
          IF it.when # <<>>
            THEN <<"*", "*", "W", "h", "e", "n", ":", "*", "*", " ">> \o it.when
            ELSE <<>>,
          IF it.link # <<>> THEN it.link ELSE PAGE_URL >>), <<"\n">>)

summaryHeader(n) ==
  <<"V", " ", "I", "n", "i", "t", "i", "a", "l", " ", "s", "e", "e", "d", ":", " ", "*", "*">>
  \o digits(n)
  \o <<"*", "*", " ", "c", "u", "r", "r", "e", "n", "t", " ", "r", "e", "q", "u", "e", "s", "t", "(", "s", ")", " ", "f", "o", "u", "n", "d">>

summaryLine(it) ==
  LET title == IF titleBits(it) # <<>> THEN join(titleBits(it), <<" ", "-", " ">>)
               ELSE <<"R", "e", "q", "u", "e", "s", "t">>
      snippet == IF it.desc # <<>>
                 THEN slice0(it.desc, SnippetCap)
                      \o (IF Len(it.desc) > SnippetCap THEN <<"~">> ELSE <<>>)
                 ELSE <<>>
  IN  join(filterBoolean(<<
          <<"*", " ", "*", "*">> \o title \o <<"*", "*">>,
          IF snippet # <<>> THEN <<"-", " ">> \o snippet ELSE <<>>,
          <<"\n">> \o (IF it.link # <<>> THEN it.link ELSE PAGE_URL) >>), <<" ">>)

\* the chunking loop losing the buffer it should flush when a line overflows
RECURSIVE chunkLoop_dropsBuffer(_, _, _, _)
chunkLoop_dropsBuffer(lines, i, chunks, buf) ==
  IF i > Len(lines)
  THEN IF trim(buf) # <<>> THEN Append(chunks, trimEnd(buf)) ELSE chunks
  ELSE LET ln == lines[i] \o <<"\n", "\n">>
       IN  IF Len(buf \o ln) > ChunkBudget
           THEN chunkLoop_dropsBuffer(lines, i + 1, chunks, ln)
           ELSE chunkLoop_dropsBuffer(lines, i + 1, chunks, buf \o ln)

\* the chunking loop of postSummaryToDiscord: lines i.. still to place
RECURSIVE chunkLoop(_, _, _, _)
chunkLoop(lines, i, chunks, buf) ==
  IF i > Len(lines)
  THEN IF trim(buf) # <<>> THEN Append(chunks, trimEnd(buf)) ELSE chunks
  ELSE LET ln == lines[i] \o <<"\n", "\n">>
       IN  IF Len(buf \o ln) > ChunkBudget
           THEN chunkLoop(lines, i + 1, Append(chunks, trimEnd(buf)), ln)
           ELSE chunkLoop(lines, i + 1, chunks, buf \o ln)

\* the chunks postSummaryToDiscord builds for a non-empty list of records
chunksOf(recs) ==
  chunkLoop([i \in 1..Len(recs) |-> summaryLine(recs[i])], 1, <<>>,
            summaryHeader(Len(recs)) \o <<"\n", "\n">>)

\* the chunks postSummaryToDiscord sends for a non-empty item list
summaryChunks(its) == chunksOf([i \in 1..Len(its) |-> Catalogue[its[i]]])

\* the one text postSummaryToDiscord sends for an empty list
NothingVisible ==
  <<"i", "!", " ", "I", "n", "i", "t", "i", "a", "l", " ", "s", "e", "e", "d", ":", " ", "n", "o", " ", "r", "e", "q", "u", "e", "s", "t", "s", " ", "v", "i", "s", "i", "b", "l", "e", " ", "r", "i", "g", "h", "t", " ", "n", "o", "w", ".">>

\* ------------------------------------------------------------------ state
VARIABLES
  file,      \* content of STATE_FILE
  now,       \* the clock, in days
  runs,      \* runs of the script started so far
  pc,        \* position of main
  cfg,       \* WEBHOOK, FIRST_RUN, SEED_IF_EMPTY of the run
  state,     \* main's state object
  items,     \* main's items (indices into Catalogue)
  fresh,     \* main's fresh
  idx,       \* index of the running loop
  log,       \* what the run has done: sends, delays, marks, the state write
  ticks,     \* clock advances inside the run
  exitCode,  \* process.exitCode
  fatal,     \* where the run's exception came from, "" if none
  start,     \* the state object as pruneOld left it
  removed,   \* pruneOld's count of deleted entries
  path,      \* the branch main took
  prev,      \* what the run before this one was given and did, and the
             \* paths of the earlier runs that wrote the state file
  arg,       \* the argument of the function that is applied on its own
  result     \* what that function returned

vars == <<file, now, runs, pc, cfg, state, items, fresh, idx, log, ticks,
          exitCode, fatal, start, removed, path, prev, arg, result>>

Configs ==
  {c \in [WEBHOOK : BOOLEAN, FIRST_RUN : BOOLEAN, SEED_IF_EMPTY : BOOLEAN] :
     c.WEBHOOK \/ (c.FIRST_RUN /\ c.SEED_IF_EMPTY)}

DefaultConfig == [WEBHOOK |-> TRUE, FIRST_RUN |-> TRUE, SEED_IF_EMPTY |-> TRUE]

\* the clock at the first run: late enough for every cutoff to be positive
Now0 == STATE_TTL_DAYS + 2

\* days between the end of a run (or the writing of the first file) and the
\* start of the next
Elapsed == {0, 1, STATE_TTL_DAYS + 1}

\* item sequences a scrape returns
ItemSeqs == UNION {[1..n -> RecIds] : n \in 0..MaxItems}

\* timestamps of a state file left by earlier versions of the script
Tpast == Now0 - STATE_TTL_DAYS - 1
Tedge == Now0 - STATE_TTL_DAYS
Tnear == Now0 - STATE_TTL_DAYS + 1

LegacyMaps ==
  LET a == Ids(1)
      l == Ids(3)
  IN  { EmptyMap,
        (a[3] :> Num(Tedge)),
        (a[2] :> Num(Tnear)) @@ (a[3] :> Num(Tedge)),
        (a[1] :> Num(Tnear)) @@ (a[2] :> Num(Tnear)) @@ (a[3] :> Num(Tnear)),
        (a[3] :> Num(Tpast)) @@ (a[2] :> Num(Tnear)) @@ (l[1] :> NotNum) }

InitFiles ==
  { NoFile, [NoFile EXCEPT !.kind = "corrupt"], [NoFile EXCEPT !.kind = "scalar"],
    [NoFile EXCEPT !.kind = "array"], [NoFile EXCEPT !.kind = "object"] }
  \cup
  { [kind |-> "object", hasSent |-> TRUE, sent |-> m, hasInit |-> TRUE,
     initialized |-> b, hasVersion |-> TRUE, version |-> STATE_VERSION,
     initialized_at |-> IF b THEN <<Tpast>> ELSE <<>>] :
       m \in LegacyMaps, b \in BOOLEAN }

NoPrev ==
  [cfg |-> DefaultConfig, items |-> <<>>, saved |-> FALSE, failed |-> {},
   sends |-> 0, paths |-> {}]

\* an entry of the log: a send (kind, record or chunk, result), a delay, a
\* mark (record, timestamp written) or the write of the state file
Event(e, kind, ref, res, ts) ==
  [e |-> e, kind |-> kind, ref |-> ref, res |-> res, ts |-> ts]

Init ==
  /\ file \in InitFiles
  /\ now = Now0
  /\ runs = 0
  /\ pc = "idle"
  /\ cfg = DefaultConfig
  /\ state = DefaultState
  /\ items = <<>>
  /\ fresh = <<>>
  /\ idx = 1
  /\ log = <<>>
  /\ ticks = 0
  /\ exitCode = 0
  /\ fatal = ""
  /\ start = DefaultState
  /\ removed = 0
  /\ path = ""
  /\ prev = NoPrev
  /\ arg = <<>>
  /\ result = <<>>

\* a read of Date.now(): the clock may have moved on since the last read
ReadClock(d) ==
  /\ d \in 0..1
  /\ d = 0 \/ ticks < MaxTicks
  /\ now' = now + d
  /\ ticks' = ticks + d

\* the catch of main
Fatal(cause) ==
  /\ fatal' = cause
  /\ exitCode' = 1
  /\ pc' = "done"

\* ------------------------------------------------------------------- main
\* main reading and pruning the state file before it looks at WEBHOOK
StartRun_loadsFirst(c, adv) ==
  /\ pc = "idle"
  /\ runs < MaxRuns
  /\ runs' = runs + 1
  /\ now' = now + adv
  /\ cfg' = c
  /\ state' = pruneOld(loadState(file), now')
  /\ start' = state'
  /\ removed' = Cardinality(DOMAIN loadState(file).sent)
                 - Cardinality(DOMAIN state'.sent)
  /\ IF ~c.WEBHOOK
     THEN exitCode' = 1 /\ fatal' = "config" /\ pc' = "done"
     ELSE pc' = "scrape" /\ UNCHANGED <<exitCode, fatal>>
  /\ UNCHANGED <<file, items, fresh, idx, log, ticks, path, prev>>
  /\ UNCHANGED <<arg, result>>

\* main up to the await of scrape(): the WEBHOOK check, loadState, pruneOld
StartRun(c, adv) ==
  /\ pc = "idle"
  /\ runs < MaxRuns
  /\ runs' = runs + 1
  /\ now' = now + adv
  /\ cfg' = c
  /\ IF ~c.WEBHOOK
     THEN /\ exitCode' = 1
          /\ fatal' = "config"
          /\ pc' = "done"
          /\ UNCHANGED <<state, start, removed>>
     ELSE /\ state' = pruneOld(loadState(file), now')
          /\ start' = state'
          /\ removed' = Cardinality(DOMAIN loadState(file).sent)
                         - Cardinality(DOMAIN state'.sent)
          /\ pc' = "scrape"
          /\ UNCHANGED <<exitCode, fatal>>
  /\ UNCHANGED <<file, items, fresh, idx, log, ticks, path, prev>>
  /\ UNCHANGED <<arg, result>>

\* scrape() resolves with the rows of the page
ScrapeReturns(its) ==
  /\ pc = "scrape"
  /\ items' = its
  /\ pc' = "decide"
  /\ UNCHANGED <<file, now, runs, cfg, state, fresh, idx, log, ticks, exitCode,
                 fatal, start, removed, path, prev>>
  /\ UNCHANGED <<arg, result>>

\* a catch of main that writes the state object before it gives up
ScrapeThrows_savesState ==
  /\ pc = "scrape"
  /\ Fatal("scrape")
  /\ file' = saveState(state)
  /\ UNCHANGED <<now, runs, cfg, state, items, fresh, idx, log, ticks,
                 start, removed, path, prev>>
  /\ UNCHANGED <<arg, result>>

\* scrape() rejects: the browser or the navigation failed
ScrapeThrows ==
  /\ pc = "scrape"
  /\ Fatal("scrape")
  /\ UNCHANGED <<file, now, runs, cfg, state, items, fresh, idx, log, ticks,
                 start, removed, path, prev>>
  /\ UNCHANGED <<arg, result>>

\* the choice of path with the first-run test not looking at initialized
Branch_firstRunAlways(st, FIRST_RUN, SEED_IF_EMPTY) ==
  LET empty == ~st.initialized /\ Cardinality(DOMAIN st.sent) = 0
  IN  IF empty /\ ~FIRST_RUN /\ SEED_IF_EMPTY THEN "seed"
      ELSE IF FIRST_RUN THEN "first"
      ELSE "incremental"

\* the two ifs of main that choose between silent seed, first run and the
\* normal path
Branch(st, FIRST_RUN, SEED_IF_EMPTY) ==
  LET empty == ~st.initialized /\ Cardinality(DOMAIN st.sent) = 0
  IN  IF empty /\ ~FIRST_RUN /\ SEED_IF_EMPTY THEN "seed"
      ELSE IF FIRST_RUN /\ ~st.initialized THEN "first"
      ELSE "incremental"

Decide ==
  /\ pc = "decide"
  /\ path' = Branch(state, cfg.FIRST_RUN, cfg.SEED_IF_EMPTY)
  /\ pc' = CASE path' = "seed" -> "seed"
             [] path' = "first" -> "summary"
             [] OTHER -> "migrate"
  /\ idx' = 1
  /\ UNCHANGED <<file, now, runs, cfg, state, items, fresh, log, ticks, exitCode,
                 fatal, start, removed, prev>>
  /\ UNCHANGED <<arg, result>>

\* for (const it of items) markAllHashes(state, it), one iteration; p is
\* "seed" (silent seed) or "firstmark" (after the summary)
SeedMark(p, d) ==
  /\ pc = p
  /\ idx <= Len(items)
  /\ ReadClock(d)
  /\ state' = [state EXCEPT !.sent = markAllHashes(state.sent, items[idx], now')]
  /\ log' = Append(log, Event("mark", p, items[idx], "ok", now'))
  /\ idx' = idx + 1
  /\ UNCHANGED <<file, runs, pc, cfg, items, fresh, exitCode, fatal, start, removed, path, prev>>
  /\ UNCHANGED <<arg, result>>

\* state.initialized = true ... saveState(state); return
SeedFinish(p) ==
  /\ pc = p
  /\ idx > Len(items)
  /\ state' = [state EXCEPT !.initialized = TRUE, !.version = STATE_VERSION,
                            !.initialized_at = <<now>>]
  /\ file' = saveState(state')
  /\ log' = Append(log, Event("save", p, 0, "ok", 0))
  /\ pc' = "done"
  /\ UNCHANGED <<now, runs, cfg, items, fresh, idx, ticks, exitCode, fatal, start,
                 removed, path, prev>>
  /\ UNCHANGED <<arg, result>>

\* postSummaryToDiscord with no items: one message, no delay
SendNothing(res) ==
  /\ pc = "summary"
  /\ items = <<>>
  /\ log' = Append(log, Event("send", "none", 0, res, 0))
  /\ IF res = "throw"
     THEN Fatal("fetch") /\ UNCHANGED idx
     ELSE pc' = "firstmark" /\ idx' = 1 /\ UNCHANGED <<exitCode, fatal>>
  /\ UNCHANGED <<file, now, runs, cfg, state, items, fresh, ticks, start, removed, path, prev>>
  /\ UNCHANGED <<arg, result>>

\* the fetch of chunk idx in postSummaryToDiscord
SendChunk(res) ==
  /\ pc = "summary"
  /\ items # <<>>
  /\ idx <= Len(summaryChunks(items))
  /\ log' = Append(log, Event("send", "summary", idx, res, 0))
  /\ IF res = "throw"
     THEN Fatal("fetch")
     ELSE pc' = "sumdelay" /\ UNCHANGED <<exitCode, fatal>>
  /\ UNCHANGED <<file, now, runs, cfg, state, items, fresh, idx, ticks, start,
                 removed, path, prev>>
  /\ UNCHANGED <<arg, result>>

\* the delay after a chunk; after the last one control returns to main
ChunkDelay ==
  /\ pc = "sumdelay"
  /\ log' = Append(log, Event("delay", "summary", idx, "ok", 0))
  /\ IF idx < Len(summaryChunks(items))
     THEN idx' = idx + 1 /\ pc' = "summary"
     ELSE idx' = 1 /\ pc' = "firstmark"
  /\ UNCHANGED <<file, now, runs, cfg, state, items, fresh, ticks, exitCode, fatal,
                 start, removed, path, prev>>
  /\ UNCHANGED <<arg, result>>

\* one iteration of the migration loop
MigrateStep ==
  /\ pc = "migrate"
  /\ idx <= Len(items)
  /\ LET info == isAlreadySeen(state.sent, items[idx])
     IN  state' = IF info.seen
                  THEN [state EXCEPT !.sent = migrateToPrimaryIfNeeded(state.sent, info)]
                  ELSE state
  /\ idx' = idx + 1
  /\ UNCHANGED <<file, now, runs, pc, cfg, items, fresh, log, ticks, exitCode,
                 fatal, start, removed, path, prev>>
  /\ UNCHANGED <<arg, result>>

MigrateDone ==
  /\ pc = "migrate"
  /\ idx > Len(items)
  /\ pc' = "classify"
  /\ idx' = 1
  /\ UNCHANGED <<file, now, runs, cfg, state, items, fresh, log, ticks, exitCode,
                 fatal, start, removed, path, prev>>
  /\ UNCHANGED <<arg, result>>

\* one iteration of the loop that collects fresh
ClassifyStep(d) ==
  /\ pc = "classify"
  /\ idx <= Len(items)
  /\ LET info == isAlreadySeen(state.sent, items[idx])
     IN  IF ~info.seen
         THEN /\ ReadClock(d)
              /\ state' = [state EXCEPT
                             !.sent = markAllHashes(state.sent, items[idx], now')]
              /\ fresh' = Append(fresh, items[idx])
              /\ log' = Append(log, Event("mark", "fresh", items[idx], "ok", now'))
         ELSE /\ d = 0
              /\ UNCHANGED <<now, ticks, state, fresh, log>>
  /\ idx' = idx + 1
  /\ UNCHANGED <<file, runs, pc, cfg, items, exitCode, fatal, start, removed, path, prev>>
  /\ UNCHANGED <<arg, result>>

\* if (!fresh.length) { saveState(state); return; } else postToDiscord(fresh)
ClassifyDone ==
  /\ pc = "classify"
  /\ idx > Len(items)
  /\ IF fresh = <<>>
     THEN /\ file' = saveState(state)
          /\ log' = Append(log, Event("save", "nothing", 0, "ok", 0))
          /\ pc' = "done"
          /\ UNCHANGED idx
     ELSE /\ pc' = "post"
          /\ idx' = 1
          /\ UNCHANGED <<file, log>>
  /\ UNCHANGED <<now, runs, cfg, state, items, fresh, ticks, exitCode, fatal,
                 start, removed, path, prev>>
  /\ UNCHANGED <<arg, result>>

\* the fetch for fresh[idx] with the next fetch following at once
PostItem_skipsDelay(res) ==
  /\ pc = "post"
  /\ log' = Append(log, Event("send", "item", fresh[idx], res, 0))
  /\ IF res = "throw"
     THEN Fatal("fetch") /\ UNCHANGED idx
     ELSE /\ IF idx < Len(fresh)
             THEN idx' = idx + 1 /\ pc' = "post"
             ELSE idx' = idx /\ pc' = "delay"
          /\ UNCHANGED <<exitCode, fatal>>
  /\ UNCHANGED <<file, now, runs, cfg, state, items, fresh, ticks, start,
                 removed, path, prev>>
  /\ UNCHANGED <<arg, result>>

\* the fetch for fresh[idx] in postToDiscord
PostItem(res) ==
  /\ pc = "post"
  /\ log' = Append(log, Event("send", "item", fresh[idx], res, 0))
  /\ IF res = "throw"
     THEN Fatal("fetch")
     ELSE pc' = "delay" /\ UNCHANGED <<exitCode, fatal>>
  /\ UNCHANGED <<file, now, runs, cfg, state, items, fresh, idx, ticks, start,
                 removed, path, prev>>
  /\ UNCHANGED <<arg, result>>

\* the delay after a post, with the state written after every delay
PostDelay_savesEachTime ==
  /\ pc = "delay"
  /\ file' = saveState(state)
  /\ IF idx < Len(fresh)
     THEN /\ idx' = idx + 1
          /\ pc' = "post"
          /\ log' = log \o <<Event("delay", "item", fresh[idx], "ok", 0),
                             Event("save", "post", 0, "ok", 0)>>
     ELSE /\ log' = log \o <<Event("delay", "item", fresh[idx], "ok", 0),
                             Event("save", "post", 0, "ok", 0)>>
          /\ pc' = "done"
          /\ UNCHANGED idx
  /\ UNCHANGED <<now, runs, cfg, state, items, fresh, ticks, exitCode, fatal,
                 start, removed, path, prev>>
  /\ UNCHANGED <<arg, result>>

\* the delay after a post; after the last one main saves the state
PostDelay ==
  /\ pc = "delay"
  /\ IF idx < Len(fresh)
     THEN /\ idx' = idx + 1
          /\ pc' = "post"
          /\ log' = Append(log, Event("delay", "item", fresh[idx], "ok", 0))
          /\ UNCHANGED file
     ELSE /\ file' = saveState(state)
          /\ log' = log \o <<Event("delay", "item", fresh[idx], "ok", 0),
                             Event("save", "post", 0, "ok", 0)>>
          /\ pc' = "done"
          /\ UNCHANGED idx
  /\ UNCHANGED <<now, runs, cfg, state, items, fresh, ticks, exitCode, fatal,
                 start, removed, path, prev>>
  /\ UNCHANGED <<arg, result>>

\* the process ends; the next run starts with nothing but the file
Exit ==
  /\ pc = "done"
  /\ pc' = "idle"
  /\ cfg' = DefaultConfig
  /\ state' = DefaultState
  /\ items' = <<>>
  /\ fresh' = <<>>
  /\ idx' = 1
  /\ log' = <<>>
  /\ ticks' = 0
  /\ exitCode' = 0
  /\ fatal' = ""
  /\ start' = DefaultState
  /\ removed' = 0
  /\ path' = ""
  /\ UNCHANGED <<file, now, runs, prev>>
  /\ UNCHANGED <<arg, result>>

\* what the log of the run says
SendsOf(kinds) == {i \in DOMAIN log : log[i].e = "send" /\ log[i].kind \in kinds}
Sends == SendsOf({"item", "summary", "none"})
ItemsSent == {log[i].ref : i \in SendsOf({"item"})}
FailedSends == {i \in Sends : log[i].res \in {"fail", "throw"}}
Saved == \E i \in DOMAIN log : log[i].e = "save"

\* the process ends and the next run is to be given what this one was given
ExitRemember ==
  /\ pc = "done"
  /\ prev' = [cfg |-> cfg, items |-> items, saved |-> Saved,
              failed |-> {log[i].ref : i \in FailedSends \cap SendsOf({"item"})},
              sends |-> Cardinality(Sends),
              paths |-> prev.paths \cup (IF Saved THEN {path} ELSE {})]
  /\ pc' = "idle"
  /\ cfg' = DefaultConfig
  /\ state' = DefaultState
  /\ items' = <<>>
  /\ fresh' = <<>>
  /\ idx' = 1
  /\ log' = <<>>
  /\ ticks' = 0
  /\ exitCode' = 0
  /\ fatal' = ""
  /\ start' = DefaultState
  /\ removed' = 0
  /\ path' = ""
  /\ UNCHANGED <<file, now, runs>>
  /\ UNCHANGED <<arg, result>>

Results == {"ok", "fail", "throw"}

Next ==
  \/ \E c \in Configs, adv \in Elapsed : StartRun(c, adv)
  \/ \E its \in ItemSeqs : ScrapeReturns(its)
  \/ ScrapeThrows
  \/ Decide
  \/ \E d \in 0..1 : SeedMark("seed", d)
  \/ SeedFinish("seed")
  \/ \E res \in Results : SendNothing(res)
  \/ \E res \in Results : SendChunk(res)
  \/ ChunkDelay
  \/ \E d \in 0..1 : SeedMark("firstmark", d)
  \/ SeedFinish("firstmark")
  \/ MigrateStep
  \/ MigrateDone
  \/ \E d \in 0..1 : ClassifyStep(d)
  \/ ClassifyDone
  \/ \E res \in Results : PostItem(res)
  \/ PostDelay
  \/ Exit

\* runs of the script on any configuration and any page
Spec == Init /\ [][Next]_vars

\* the first run of a sequence is free, every later run repeats it
FirstStart == \E c \in Configs, adv \in Elapsed : runs = 0 /\ StartRun(c, adv)
RepeatStart == \E adv \in Elapsed : runs > 0 /\ StartRun(prev.cfg, adv)
FirstScrape == \E its \in ItemSeqs : runs = 1 /\ ScrapeReturns(its)
RepeatScrape == runs > 1 /\ ScrapeReturns(prev.items)

NextReplay ==
  \/ FirstStart
  \/ RepeatStart
  \/ FirstScrape
  \/ RepeatScrape
  \/ ScrapeThrows
  \/ Decide
  \/ \E d \in 0..1 : SeedMark("seed", d)
  \/ SeedFinish("seed")
  \/ \E res \in Results : SendNothing(res)
  \/ \E res \in Results : SendChunk(res)
  \/ ChunkDelay
  \/ \E d \in 0..1 : SeedMark("firstmark", d)
  \/ SeedFinish("firstmark")
  \/ MigrateStep
  \/ MigrateDone
  \/ \E d \in 0..1 : ClassifyStep(d)
  \/ ClassifyDone
  \/ \E res \in Results : PostItem(res)
  \/ PostDelay
  \/ ExitRemember

\* a run followed by runs with the same configuration over the same records
SpecReplay == Init /\ [][NextReplay]_vars

\* the process ends and the path of the run, if it wrote the state file, is
\* added to the paths taken so far
ExitHistory ==
  /\ pc = "done"
  /\ prev' = [prev EXCEPT !.paths = prev.paths \cup (IF Saved THEN {path} ELSE {})]
  /\ pc' = "idle"
  /\ cfg' = DefaultConfig
  /\ state' = DefaultState
  /\ items' = <<>>
  /\ fresh' = <<>>
  /\ idx' = 1
  /\ log' = <<>>
  /\ ticks' = 0
  /\ exitCode' = 0
  /\ fatal' = ""
  /\ start' = DefaultState
  /\ removed' = 0
  /\ path' = ""
  /\ UNCHANGED <<file, now, runs>>
  /\ UNCHANGED <<arg, result>>

NextHistory ==
  \/ \E c \in Configs, adv \in Elapsed : StartRun(c, adv)
  \/ \E its \in ItemSeqs : ScrapeReturns(its)
  \/ ScrapeThrows
  \/ Decide
  \/ \E d \in 0..1 : SeedMark("seed", d)
  \/ SeedFinish("seed")
  \/ \E res \in Results : SendNothing(res)
  \/ \E res \in Results : SendChunk(res)
  \/ ChunkDelay
  \/ \E d \in 0..1 : SeedMark("firstmark", d)
  \/ SeedFinish("firstmark")
  \/ MigrateStep
  \/ MigrateDone
  \/ \E d \in 0..1 : ClassifyStep(d)
  \/ ClassifyDone
  \/ \E res \in Results : PostItem(res)
  \/ PostDelay
  \/ ExitHistory

\* runs on any configuration and any page, with the paths taken so far
SpecHistory == Init /\ [][NextHistory]_vars

\* -------------------------------------------------- formatting on its own
\* longest list of records handed to a formatting function
MaxRows == 2
\* length of a long description and of a very long link
LongField == 1950

Fill(n) == [i \in 1..n |-> "x"]

\* records as scrapeFromTrending builds them, with short and long fields
FormatRows ==
  { Row(p, <<"a", "l">>, Fill(dl), <<>>,
        IF ll = 0 THEN <<>> ELSE <<"h", "t", "t", "p", ":", "/", "/">> \o Fill(ll)) :
      p \in {<<>>, <<"$", "5">>},
      dl \in {0, SnippetCap, SnippetCap + 1, LongField},
      ll \in {0, LongLen, LongField} }

RowSeqs == UNION {[1..n -> FormatRows] : n \in 0..MaxRows}

progVars == <<file, now, runs, pc, cfg, state, items, fresh, idx, log, ticks,
              exitCode, fatal, start, removed, path, prev>>

\* nothing has run; arg is drawn from the set args
InitApply(args) ==
  /\ file = NoFile
  /\ now = Now0
  /\ runs = 0
  /\ pc = "idle"
  /\ cfg = DefaultConfig
  /\ state = DefaultState
  /\ items = <<>>
  /\ fresh = <<>>
  /\ idx = 1
  /\ log = <<>>
  /\ ticks = 0
  /\ exitCode = 0
  /\ fatal = ""
  /\ start = DefaultState
  /\ removed = 0
  /\ path = ""
  /\ prev = NoPrev
  /\ arg \in args
  /\ result = <<>>

\* the texts postSummaryToDiscord(arg) hands to fetch, in order
ApplySummary ==
  /\ result = <<>>
  /\ result' = [fn |-> "postSummaryToDiscord",
                texts |-> IF arg = <<>> THEN <<NothingVisible>> ELSE chunksOf(arg)]
  /\ UNCHANGED <<progVars, arg>>

\* the texts postToDiscord(arg) hands to fetch, in order
ApplyItems ==
  /\ result = <<>>
  /\ result' = [fn |-> "postToDiscord",
                texts |-> [i \in 1..Len(arg) |-> itemContent(arg[i])]]
  /\ UNCHANGED <<progVars, arg>>

NextFormat ==
  \/ ApplySummary
  \/ ApplyItems

\* postSummaryToDiscord and postToDiscord applied to lists of records
SpecFormat == InitApply(RowSeqs) /\ [][NextFormat]_vars

\* ------------------------------------------------------- norm on its own
\* longest string handed to norm
MaxLen == 4

\* the characters of the strings handed to norm
Alphabet == {"a", " ", "\n", "\t"}

\* an argument of norm: a string, or null / undefined
NormArgs ==
  {[absent |-> TRUE, s |-> <<>>]}
  \cup {[absent |-> FALSE, s |-> t] : t \in UNION {[1..n -> Alphabet] : n \in 0..MaxLen}}

\* (s || ""): null, undefined and "" all give ""
orEmpty(a) == IF a.absent THEN <<>> ELSE a.s

\* norm(arg), and norm applied to what it returned
ApplyNorm ==
  /\ result = <<>>
  /\ result' = [fn |-> "norm", once |-> norm(orEmpty(arg)),
                twice |-> norm(orEmpty([absent |-> FALSE, s |-> norm(orEmpty(arg))]))]
  /\ UNCHANGED <<progVars, arg>>

\* norm applied to strings
SpecNorm == InitApply(NormArgs) /\ [][ApplyNorm]_vars

\* ----------------------------------------------------------------- claims
Range(q) == {q[i] : i \in DOMAIN q}

\* the record has a candidate id in the ledger as pruneOld left it
InPruned(r) == IdSet(r) \cap DOMAIN start.sent # {}

\* C1: in an incremental run on an initialized state that ends without an
\* exception, a record with a candidate id in the pruned ledger gets no
\* delivery call and is not in fresh, a record with none gets a per-item
\* delivery call, and at the end every record's primary id is in the ledger
C1_IncrementalDelivery ==
  (pc = "done" /\ path = "incremental" /\ start.initialized /\ fatal = "") =>
    \A i \in DOMAIN items :
      LET r == items[i]
      IN  /\ InPruned(r) => r \notin ItemsSent /\ r \notin Range(fresh)
          /\ ~InPruned(r) => r \in ItemsSent
          /\ Ids(r)[1] \in DOMAIN state.sent

\* C2: a run that follows a run which wrote the state file, with the same
\* configuration and the same records and with nothing pruned, sends nothing
C2_NoDuplicateRelay ==
  (runs > 1 /\ prev.saved /\ cfg = prev.cfg /\ items = prev.items /\ removed = 0)
    => Sends = {}

\* C3: a run on an uninitialized state with FIRST_RUN set makes exactly one
\* summary (or "nothing visible") delivery call and no per-item call, and
\* ends with initialized = true in the state file
C3_FirstRunSummary ==
  (pc = "done" /\ ~start.initialized /\ cfg.FIRST_RUN /\ fatal \notin {"config", "scrape"}) =>
    /\ Cardinality(SendsOf({"summary", "none"})) = 1
    /\ SendsOf({"item"}) = {}
    /\ Saved /\ file.kind = "object" /\ file.hasInit /\ file.initialized

\* the run is a silent seed by the claim's words: nothing initialized, an
\* empty ledger, FIRST_RUN off, SEED_IF_EMPTY on, and the scrape returned
SilentSeedRun ==
  /\ pc = "done" /\ fatal = ""
  /\ ~start.initialized /\ start.sent = EmptyMap
  /\ cfg.WEBHOOK /\ ~cfg.FIRST_RUN /\ cfg.SEED_IF_EMPTY

SeedOutcome ==
  /\ Sends = {}
  /\ Saved /\ file.kind = "object" /\ file.hasInit /\ file.initialized
  /\ \A i \in DOMAIN items : IdSet(items[i]) \subseteq DOMAIN file.sent

\* C4: a silent seed sends nothing, ends with initialized = true
\* in the file and every candidate id of every record in the file's ledger,
\* the ids of one record all carrying one timestamp
C4_SilentSeedOneTimestamp ==
  SilentSeedRun =>
    /\ SeedOutcome
    /\ \A i \in DOMAIN items :
         \A k1, k2 \in IdSet(items[i]) : file.sent[k1] = file.sent[k2]

\* C5: on an initialized state a run with FIRST_RUN set takes the branch the
\* same run takes with FIRST_RUN unset, the incremental one, and sends no
\* summary
C5_FirstRunIgnoredOnceInitialized ==
  (path # "" /\ start.initialized /\ cfg.FIRST_RUN) =>
    /\ path = Branch(start, FALSE, cfg.SEED_IF_EMPTY)
    /\ path = "incremental"
    /\ SendsOf({"summary", "none"}) = {}

C5_Witness ==
  /\ pc = "done" /\ start.initialized /\ cfg.FIRST_RUN
  /\ path = "incremental" /\ SendsOf({"item"}) # {} /\ Saved

\* the pruned ledger holds a legacy id of the record and not its primary id
LegacyOnly(r) ==
  /\ Ids(r)[1] \notin DOMAIN start.sent
  /\ Ids(r)[2] \in DOMAIN start.sent \/ Ids(r)[3] \in DOMAIN start.sent

FirstLegacy(r) == IF Ids(r)[2] \in DOMAIN start.sent THEN Ids(r)[2] ELSE Ids(r)[3]

\* C6: for a record with only legacy ids in the pruned ledger, isAlreadySeen
\* reports seen with the first legacy id in priority order; once the
\* migration loop is over the primary id carries that entry's timestamp,
\* the entries of the pruned ledger are as they were, and the record is not
\* in fresh and gets no delivery call
C6_LegacyMigration ==
  (path = "incremental" /\ pc \in {"classify", "post", "delay", "done"}) =>
    \A i \in DOMAIN items :
      LET r == items[i]
          info == isAlreadySeen(start.sent, r)
      IN  LegacyOnly(r) =>
            /\ info.seen /\ info.existingId = FirstLegacy(r)
            /\ info.primary = Ids(r)[1]
            /\ Ids(r)[1] \in DOMAIN state.sent
            /\ state.sent[Ids(r)[1]] = start.sent[FirstLegacy(r)]
            /\ \A k \in DOMAIN start.sent :
                 k \in DOMAIN state.sent /\ state.sent[k] = start.sent[k]
            /\ r \notin Range(fresh)
            /\ r \notin ItemsSent

C6_Witness ==
  /\ pc = "done" /\ path = "incremental"
  /\ \E i \in DOMAIN items :
       /\ LegacyOnly(items[i])
       /\ Ids(items[i])[2] \in DOMAIN start.sent
       /\ Ids(items[i])[3] \in DOMAIN start.sent
       /\ start.sent[Ids(items[i])[2]] # start.sent[Ids(items[i])[3]]
       /\ state.sent[Ids(items[i])[1]] = start.sent[Ids(items[i])[2]]

\* C7: pruneOld leaves exactly the entries whose timestamp is a number not
\* older than the clock minus the TTL, each as it was; an entry one day
\* older than the TTL is gone, an entry one day younger is kept
C7_PruneExact ==
  pc = "scrape" =>
    LET L == loadState(file).sent
        cutoff == now - STATE_TTL_DAYS
    IN  /\ DOMAIN state.sent = {k \in DOMAIN L : L[k].num /\ L[k].v >= cutoff}
        /\ \A k \in DOMAIN state.sent : state.sent[k] = L[k]
        /\ \A k \in DOMAIN L :
             /\ L[k] = Num(now - (STATE_TTL_DAYS + 1)) => k \notin DOMAIN state.sent
             /\ L[k] = Num(now - (STATE_TTL_DAYS - 1)) => k \in DOMAIN state.sent
        /\ removed = Cardinality(DOMAIN L) - Cardinality(DOMAIN state.sent)

C7_Witness ==
  /\ pc = "scrape"
  /\ LET L == loadState(file).sent
     IN  /\ \E k \in DOMAIN L : L[k] = Num(now - (STATE_TTL_DAYS + 1))
         /\ \E k \in DOMAIN L : L[k] = Num(now - (STATE_TTL_DAYS - 1))
                                /\ k \in DOMAIN state.sent
         /\ \E k \in DOMAIN L : ~L[k].num
  /\ removed = 2

\* C8: a delivery call that fails, by a non-2xx response or by a transport
\* error, does not end the run: every record of fresh gets its call and the
\* state file is written
C8_DeliveryFailureNeverAborts ==
  (pc = "done" /\ FailedSends # {}) =>
    /\ Saved
    /\ exitCode = 0
    /\ path = "incremental" => Range(fresh) \subseteq ItemsSent

\* C9: a record whose delivery call failed is marked in the state file at
\* the end of the run, and the next run over the same records, with nothing
\* pruned, makes no delivery call for it
C9_FailedDeliveryStillSeen ==
  /\ pc = "done" =>
       \A i \in FailedSends \cap SendsOf({"item"}) :
         Saved /\ IdSet(log[i].ref) \subseteq DOMAIN file.sent
  /\ (runs > 1 /\ removed = 0) => ItemsSent \cap prev.failed = {}

\* C10: a run that reached the choice of its path ends with the state file
\* holding the state object as the run left it
C10_StateWrittenOnEveryPath ==
  (pc = "done" /\ path # "") => Saved /\ file = saveState(state)

\* until the run writes the state file, the file is the one the run loaded
FileIntact ==
  (pc # "idle" /\ cfg.WEBHOOK /\ ~Saved) =>
    start = pruneOld(loadState(file), now - ticks)

\* a step that changes the file is the write that ends a run without an
\* exception, and it writes the state object as it is then; a step into
\* main's catch leaves the file alone
WriteStep ==
  /\ file' # file =>
       /\ pc' = "done" /\ fatal' = "" /\ exitCode' = 0
       /\ ~Saved /\ Saved'
       /\ file' = saveState(state')
  /\ fatal' # "" => file' = file

\* the run after a run that ended in main's catch finds the records the
\* aborted run had marked in memory unseen again: none of their ids is in the
\* ledger it loads, and isAlreadySeen judges them anew (a record is in fresh
\* unless a record marked earlier in this run shares an id with it)
Reconsidered ==
  (runs > 1 /\ ~prev.saved /\ pc \in {"post", "delay", "done"}
     /\ path = "incremental") =>
    \A r \in prev.failed :
      /\ ~InPruned(r)
      /\ \/ r \in Range(fresh)
         \/ \E q \in Range(fresh) : q # r /\ IdSet(q) \cap IdSet(r) # {}

\* C11: the state file changes only in the write that ends a run, never
\* while the ledger is being changed; a run that ends in main's catch leaves
\* the file as it found it, and the next run, starting from that file, has
\* the records that were marked only in memory in fresh again
C11_WrittenOnlyAtCheckpoint ==
  /\ [](FileIntact /\ Reconsidered)
  /\ [][WriteStep]_vars

C11_Witness ==
  /\ pc = "done" /\ runs > 1 /\ ~prev.saved /\ prev.failed # {}
  /\ path = "incremental" /\ prev.failed \subseteq ItemsSent /\ Saved
  /\ start = pruneOld(loadState(saveState(start)), now - ticks)

\* the run is an incremental one on an initialized, empty ledger and the
\* page listed one record twice
DuplicatePair ==
  /\ pc = "done" /\ path = "incremental"
  /\ start.initialized /\ start.sent = EmptyMap
  /\ Len(items) = 2 /\ items[1] = items[2]

\* C12: a duplicate pair on an empty initialized ledger is marked once, is
\* once in fresh and gets exactly one delivery call, and the ledger ends
\* with the ids of that one record, its primary id among them once
C12_InRunDedup ==
  DuplicatePair =>
    /\ fresh = <<items[1]>>
    /\ Cardinality(SendsOf({"item"})) = 1
    /\ Cardinality({i \in DOMAIN log : log[i].e = "mark"}) = 1
    /\ DOMAIN state.sent = IdSet(items[1])
    /\ Cardinality({k \in DOMAIN state.sent :
                      \E r \in RecIds : k = Ids(r)[1]}) = 1

C12_Witness ==
  /\ DuplicatePair /\ Saved
  /\ \E i \in SendsOf({"item"}) : log[i].res = "ok"
  /\ file.sent = state.sent

\* the sink's cap on the length of one message
SinkCap == 2000

\* C13: no text handed to the sink is longer than the sink's cap, and no
\* summary chunk is longer than the 1900-character budget
C13_MessageSizeCap ==
  result # <<>> =>
    \A i \in DOMAIN result.texts :
      /\ Len(result.texts[i]) <= SinkCap
      /\ result.fn = "postSummaryToDiscord" => Len(result.texts[i]) <= ChunkBudget

\* the blocks of a text that blank lines separate, from position lo on;
\* seps holds the positions at which a blank line starts
RECURSIVE blocksFrom(_, _, _)
blocksFrom(c, seps, lo) ==
  IF \E i \in seps : i >= lo
  THEN LET i == CHOOSE j \in seps : j >= lo /\ \A k \in seps : k >= lo => j <= k
       IN  <<SubSeq(c, lo, i - 1)>> \o blocksFrom(c, seps, i + 2)
  ELSE <<SubSeq(c, lo, Len(c))>>

blocks(c) ==
  blocksFrom(c, {i \in 1..(Len(c) - 1) : c[i] = "\n" /\ c[i + 1] = "\n"}, 1)

\* the blocks of all chunks, in send order
RECURSIVE allBlocks(_, _)
allBlocks(chunks, i) ==
  IF i > Len(chunks) THEN <<>> ELSE blocks(chunks[i]) \o allBlocks(chunks, i + 1)

SummaryOfRows ==
  result # <<>> /\ result.fn = "postSummaryToDiscord" /\ arg # <<>>

\* C14: for a non-empty list of records the blocks of the chunks, in send
\* order, are the header followed by every record's line once, in the order
\* of the records; no chunk is empty and the header is in the first chunk
\* only
C14_ChunkingLosesNothing ==
  SummaryOfRows =>
    LET chunks == result.texts
        header == summaryHeader(Len(arg))
    IN  /\ allBlocks(chunks, 1) =
             <<header>> \o [i \in 1..Len(arg) |-> summaryLine(arg[i])]
        /\ \A i \in DOMAIN chunks : chunks[i] # <<>> /\ trim(chunks[i]) # <<>>
        /\ blocks(chunks[1])[1] = header
        /\ \A i \in 2..Len(chunks) :
             \A j \in DOMAIN blocks(chunks[i]) : blocks(chunks[i])[j] # header

\* two chunks, each with a record's line
C14_Witness ==
  /\ SummaryOfRows
  /\ Len(arg) = 2 /\ Len(result.texts) = 2
  /\ Len(blocks(result.texts[1])) = 2
  /\ blocks(result.texts[2]) = <<summaryLine(arg[2])>>

\* a run without WEBHOOK is over at once with exit code 1: nothing was
\* loaded from the state file, nothing scraped, nothing sent or written
AbortedAtOnce ==
  (pc # "idle" /\ ~cfg.WEBHOOK) =>
    /\ pc = "done" /\ exitCode = 1 /\ fatal = "config"
    /\ state = DefaultState /\ start = DefaultState /\ removed = 0
    /\ items = <<>> /\ fresh = <<>> /\ path = ""
    /\ log = <<>>

\* C15: without WEBHOOK the run ends with exit code 1 before the state file
\* is read, the page is fetched or a message is sent, and the state file
\* is not written
C15_MissingWebhookAborts ==
  /\ []AbortedAtOnce
  /\ [][~cfg'.WEBHOOK => file' = file]_vars

C15_Witness ==
  /\ pc = "done" /\ ~cfg.WEBHOOK /\ exitCode = 1
  /\ file.kind = "object" /\ DOMAIN file.sent # {} /\ file.initialized
  /\ loadState(file) # state
  /\ runs > 1

\* the state file lacks something the loader fills in
Defective(f) ==
  \/ f.kind \in {"missing", "corrupt", "scalar", "array"}
  \/ f.kind = "object" /\ (~f.hasSent \/ ~f.hasInit \/ ~f.hasVersion)

\* C16: whatever the state file lacks, loadState returns a state with a sent
\* map, a boolean initialized (false when the file has none) and a version,
\* the run goes on, and the state it writes is one that loadState reads
\* back with the same ledger and the same initialized
C16_LoaderTolerance ==
  /\ pc = "scrape" =>
       LET st == loadState(file)
       IN  /\ fatal = "" /\ exitCode = 0
           /\ DOMAIN st.sent \subseteq 1..(3 * Len(Catalogue))
           /\ st.initialized \in BOOLEAN
           /\ Defective(file) /\ ~(file.kind = "object" /\ file.hasInit)
                => ~st.initialized
           /\ st.version = (IF file.kind = "object" /\ file.hasVersion
                            THEN file.version ELSE STATE_VERSION)
  /\ (pc = "done" /\ Saved) =>
       /\ loadState(file).sent = state.sent
       /\ loadState(file).initialized = state.initialized

\* the records of the per-item sends and the chunk numbers of the summary
\* sends, in the order of the log
SentRefs(kind) ==
  LET sel == SelectSeq(log, LAMBDA ev : ev.e = "send" /\ ev.kind = kind)
  IN  [i \in DOMAIN sel |-> sel[i].ref]

\* C17: between two sends of a run there is a delay, the delay of the
\* earlier send, which follows that send at once; per-item sends follow the
\* order of fresh and summary chunks their own order
C17_DelayBetweenSends ==
  /\ \A i, j \in Sends :
       i < j => \E k \in (i + 1)..(j - 1) : log[k].e = "delay"
  /\ \A i, j \in Sends :
       i < j => log[i + 1].e = "delay" /\ log[i + 1].ref = log[i].ref
  /\ SentRefs("item") = SubSeq(fresh, 1, Len(SentRefs("item")))
  /\ SentRefs("summary") = [i \in 1..Len(SentRefs("summary")) |-> i]

C17_Witness ==
  /\ pc = "done" /\ Saved
  /\ Cardinality(SendsOf({"item"})) = 2
  /\ \E i \in SendsOf({"item"}) : log[i].res = "fail"
  /\ Cardinality({k \in DOMAIN log : log[k].e = "delay"}) = 2

\* C18: norm applied to what norm returned changes nothing; what norm
\* returns has no whitespace at either end and no two whitespace characters
\* in a row, and for null or undefined it is the empty string
C18_NormIdempotent ==
  (result # <<>> /\ result.fn = "norm") =>
    LET t == result.once
    IN  /\ result.twice = t
        /\ t # <<>> => t[1] \notin Whitespace /\ t[Len(t)] \notin Whitespace
        /\ \A i \in 1..(Len(t) - 1) :
             ~(t[i] \in Whitespace /\ t[i + 1] \in Whitespace)
        /\ \A i \in DOMAIN t : t[i] \in Whitespace => t[i] = " "
        /\ arg.absent => t = <<>>

\* a string with whitespace at both ends and a run of it inside
C18_Witness ==
  /\ result # <<>> /\ result.fn = "norm"
  /\ ~arg.absent /\ Len(arg.s) = MaxLen
  /\ arg.s[1] \in Whitespace /\ arg.s[MaxLen] \in Whitespace
  /\ result.once # <<>> /\ result.once # arg.s

\* C19: of the runs on one state file that wrote it, at most one took a
\* seeding path (silent seed or first-run summary), and after a run that
\* took the incremental path no run sends a summary
C19_SeedingOnce ==
  /\ (pc = "done" /\ Saved /\ path \in {"seed", "first"}) =>
       prev.paths \cap {"seed", "first"} = {}
  /\ "incremental" \in prev.paths => SendsOf({"summary", "none"}) = {}

\* the content of items[i] (its primary id is the digest of its normalized
\* price, user, description, when and link) differs from that of every
\* record with an id in the pruned ledger and of every record before it
NewContent(i) ==
  \A q \in RecIds :
    (InPruned(q) \/ \E j \in 1..(i - 1) : items[j] = q)
      => Ids(q)[1] # Ids(items[i])[1]

\* C20: in an incremental run that ends without an exception, a record
\* whose content differs from that of every record marked before is put in
\* fresh and gets a per-item delivery call
C20_NoNewRecordSuppressed ==
  (pc = "done" /\ path = "incremental" /\ fatal = "") =>
    \A i \in DOMAIN items :
      NewContent(i) => items[i] \in Range(fresh) /\ items[i] \in ItemsSent

\* the state file the run loaded had entries of the record and pruneOld
\* removed them all (the file is still the loaded one: no write yet)
Expired(r) ==
  /\ IdSet(r) \cap DOMAIN loadState(file).sent # {}
  /\ IdSet(r) \cap DOMAIN start.sent = {}

\* the incremental run has made its last delivery call, or a delivery call
\* took it into main's catch; the state file is not yet written
DeliveryOver ==
  /\ path = "incremental"
  /\ \/ pc = "delay" /\ idx = Len(fresh)
     \/ pc = "done" /\ fatal = "fetch"

\* C21: the ledger the seen-checks and the migration work on holds no
\* expired entry, and a record whose entries have all expired is new again:
\* it is in fresh, gets a delivery call, and all its ids carry a timestamp
\* of this run
C21_PruneBeforeSeenCheck ==
  /\ pc \in {"scrape", "decide", "migrate"} =>
       \A k \in DOMAIN state.sent :
         state.sent[k].num /\ state.sent[k].v >= (now - ticks) - STATE_TTL_DAYS
  /\ DeliveryOver =>
       \A i \in DOMAIN items :
         Expired(items[i]) =>
           /\ items[i] \in Range(fresh)
           /\ items[i] \in ItemsSent
           /\ \A k \in IdSet(items[i]) :
                /\ k \in DOMAIN state.sent
                /\ state.sent[k].num /\ state.sent[k].v >= now - ticks

\* positions of the run's log by event
LogOf(e) == {i \in DOMAIN log : log[i].e = e}

\* the order of marks, delivery calls and the state write in the log of an
\* incremental run
OrderedLog ==
  LET marks == LogOf("mark")
      sends == SendsOf({"item"})
      saves == LogOf("save")
  IN  /\ \A m \in marks : \A d \in sends : m < d
      /\ \A d \in sends :
           /\ \E m \in marks : log[m].ref = log[d].ref
           /\ IdSet(log[d].ref) \subseteq DOMAIN state.sent
      /\ sends # {} =>
           /\ Cardinality(marks) = Len(fresh)
           /\ \A i \in DOMAIN items : isAlreadySeen(state.sent, items[i]).seen
      /\ Cardinality(saves) <= 1
      /\ \A v \in saves :
           /\ v = Len(log)
           /\ \A d \in sends : d < v /\ log[d].res # "throw"
           /\ {log[d].ref : d \in sends} = Range(fresh)
           /\ sends # {} => log[v - 1].e = "delay"

\* a step of an incremental run that writes the state file is taken after
\* the last delivery call has returned
WriteAfterLastCall ==
  (path = "incremental" /\ file' # file) =>
    /\ pc' = "done"
    /\ \/ fresh = <<>>
       \/ pc = "delay" /\ idx = Len(fresh) /\ ItemsSent = Range(fresh)

\* C22: in an incremental run every record is classified and every new one
\* marked in memory before the first delivery call, every delivery call is
\* for a record already marked in memory, and the one state write comes
\* after the last delivery call has returned
C22_StrictStepOrder ==
  /\ [](path = "incremental" => OrderedLog)
  /\ [][WriteAfterLastCall]_vars

C22_Witness ==
  /\ path = "incremental"
  /\ pc = "done"
  /\ Len(fresh) = 2
  /\ Cardinality(SendsOf({"item"})) = 2
  /\ LogOf("save") = {Len(log)}
  /\ file = saveState(state)
  /\ file # saveState(start)

\* the records a delivery call carries: the one item, or all scraped rows
\* of the first-run summary
Carried(d) == IF log[d].kind = "item" THEN {log[d].ref} ELSE Range(items)

\* C22 as stated, for every path of a run: no delivery call is made for a
\* record that is not already marked in memory
C22_MarkedBeforeAnyCall ==
  \A d \in SendsOf({"item", "summary"}) :
    \A r \in Carried(d) :
      \E m \in LogOf("mark") : m < d /\ log[m].ref = r

\* a step leaves the timestamp of every key that stays in the ledger alone
TimestampsKept(before, after) ==
  \A k \in DOMAIN before \cap DOMAIN after : after[k] = before[k]

\* the steps inside a run: marks, migration, seeding
InRunStep == pc # "idle" /\ pc' # "idle"

\* the ledger a starting run works on takes its timestamps from the file
LoadStep == pc = "idle" /\ pc' # "idle"

\* C23: once a key is in the ledger no mark, migration or seeding step of
\* any run changes its timestamp: steps inside a run keep it, a written file
\* carries it, and the next run loads it unchanged until pruneOld removes
\* the key
C23_FirstSeenTimestamps ==
  /\ [][InRunStep => TimestampsKept(state.sent, state'.sent)]_vars
  /\ [][LoadStep => TimestampsKept(loadState(file).sent, state'.sent)]_vars
  /\ [][file' # file => TimestampsKept(state.sent, loadState(file').sent)]_vars
====
